---- MODULE Spec2Model ----
(***************************************************************************)
(* Model of psiphon/notice.go: the notice emitter (outputNotice,           *)
(* SetNoticeOutput and the shared noticeLoggerMutex), the notice decoder   *)
(* GetNoticeTunnels, and the stream framer NoticeReceiver.Write.           *)
(*                                                                         *)
(* A byte string is a sequence of one-character strings.                   *)
(***************************************************************************)
EXTENDS Integers, Sequences, FiniteSets, TLC

\* ------------------------------------------------------------------ bounds

\* Number of Write calls made on one receiver.
MaxWrites == 3

\* Total number of bytes written to one receiver over all its Write calls.
MaxTotal == 5

\* The instants the clock takes: 0..MaxClock.
MaxClock == 1

\* Number of SetNoticeOutput calls.
MaxSets == 1

\* Number of Write calls made concurrently on one receiver.
MaxCalls == 3

\* Number of bytes a sink takes from a Write in one step.
SinkBlock == 48

\* The largest tunnel count decoded.
MaxCount == 10

\* The largest number of arguments after showUser in an outputNotice call.
MaxArgs == 4

\* ------------------------------------------------------------------- bytes

NL == "\n"

\* The bytes fed to a receiver: two payload bytes and the record delimiter.
StreamByte == {"a", "b", NL}

\* All byte strings over S of length at most n.
BytesUpTo(S, n) == UNION {[1..k -> S] : k \in 0..n}

\* Go's s[lo:hi] (0-based, hi exclusive).
Slice(s, lo, hi) == SubSeq(s, lo + 1, hi)

\* Go's s[lo:].
SliceFrom(s, lo) == SubSeq(s, lo + 1, Len(s))

\* bytes.Index(s, []byte{c}): 0-based index of the first c in s, -1 if none.
BytesIndex(s, c) ==
    IF \E i \in 1..Len(s) : s[i] = c
    THEN (CHOOSE i \in 1..Len(s) : s[i] = c /\ \A j \in 1..(i - 1) : s[j] # c) - 1
    ELSE -1

\* Concatenation of a sequence of byte strings.
RECURSIVE Concat(_)
Concat(ss) == IF ss = <<>> THEN <<>> ELSE Head(ss) \o Concat(Tail(ss))

\* The records of a stream that ends with a delimiter (or is empty): the
\* pieces between delimiters, in order.
RECURSIVE SplitRecords(_)
SplitRecords(s) ==
    LET i == BytesIndex(s, NL)
    IN  IF i = -1 THEN <<>>
        ELSE <<Slice(s, 0, i)>> \o SplitRecords(SliceFrom(s, i + 1))

\* ------------------------------------------------------------ byte order

\* The bytes of the model in increasing byte value: newline, then the
\* printable ASCII characters (the grave accent left out).
Ascii == <<NL, " ", "!", "\"", "#", "$", "%", "&", "'", "(", ")", "*", "+",
    ",", "-", ".", "/", "0", "1", "2", "3", "4", "5", "6", "7", "8", "9",
    ":", ";", "<", "=", ">", "?", "@", "A", "B", "C", "D", "E", "F", "G",
    "H", "I", "J", "K", "L", "M", "N", "O", "P", "Q", "R", "S", "T", "U",
    "V", "W", "X", "Y", "Z", "[", "\\", "]", "^", "_", "a", "b", "c",
    "d", "e", "f", "g", "h", "i", "j", "k", "l", "m", "n", "o", "p", "q",
    "r", "s", "t", "u", "v", "w", "x", "y", "z", "{", "|", "}", "~">>

Ord(c) == CHOOSE i \in 1..Len(Ascii) : Ascii[i] = c

\* a < b as Go compares strings: bytewise, a proper prefix first.
RECURSIVE BytesLess(_, _)
BytesLess(a, b) ==
    IF b = <<>> THEN FALSE
    ELSE IF a = <<>> THEN TRUE
    ELSE IF Head(a) # Head(b) THEN Ord(Head(a)) < Ord(Head(b))
    ELSE BytesLess(Tail(a), Tail(b))

UpperCase == <<"A", "B", "C", "D", "E", "F", "G", "H", "I", "J", "K", "L",
    "M", "N", "O", "P", "Q", "R", "S", "T", "U", "V", "W", "X", "Y", "Z">>

LowerCase == <<"a", "b", "c", "d", "e", "f", "g", "h", "i", "j", "k", "l",
    "m", "n", "o", "p", "q", "r", "s", "t", "u", "v", "w", "x", "y", "z">>

\* ASCII case folding of one byte.
ToLower(c) ==
    IF \E i \in 1..26 : UpperCase[i] = c
    THEN LowerCase[CHOOSE i \in 1..26 : UpperCase[i] = c]
    ELSE c

\* bytes.EqualFold on ASCII.
EqualFold(a, b) ==
    /\ Len(a) = Len(b)
    /\ \A i \in 1..Len(a) : ToLower(a[i]) = ToLower(b[i])

Digits == <<"0", "1", "2", "3", "4", "5", "6", "7", "8", "9">>

IsDigit(c) == \E d \in 1..10 : Digits[d] = c

DigitVal(c) == (CHOOSE d \in 1..10 : Digits[d] = c) - 1

\* strconv: the decimal text of an integer.
RECURSIVE FormatNat(_)
FormatNat(n) ==
    IF n < 10 THEN <<Digits[n + 1]>>
    ELSE FormatNat(n \div 10) \o <<Digits[(n % 10) + 1]>>

FormatInt(i) == IF i < 0 THEN <<"-">> \o FormatNat(0 - i) ELSE FormatNat(i)

\* ----------------------------------------------------------------- literals

S_noticeType == <<"n", "o", "t", "i", "c", "e", "T", "y", "p", "e">>
S_showUser == <<"s", "h", "o", "w", "U", "s", "e", "r">>
S_data == <<"d", "a", "t", "a">>
S_timestamp == <<"t", "i", "m", "e", "s", "t", "a", "m", "p">>
S_count == <<"c", "o", "u", "n", "t">>
S_message == <<"m", "e", "s", "s", "a", "g", "e">>
S_Tunnels == <<"T", "u", "n", "n", "e", "l", "s">>
S_Info == <<"I", "n", "f", "o">>
S_Alert == <<"A", "l", "e", "r", "t">>
S_CandidateServers == <<"C", "a", "n", "d", "i", "d", "a", "t", "e", "S",
    "e", "r", "v", "e", "r", "s">>
S_region == <<"r", "e", "g", "i", "o", "n">>
S_protocol == <<"p", "r", "o", "t", "o", "c", "o", "l">>
S_true == <<"t", "r", "u", "e">>
S_false == <<"f", "a", "l", "s", "e">>
S_null == <<"n", "u", "l", "l">>
FallbackHead == <<"{", "\"", "A", "l", "e", "r", "t", "\"", ":", "{", "\"",
    "m", "e", "s", "s", "a", "g", "e", "\"", ":", "\"">>
FallbackTail == <<"\"", "}", "}">>
ErrUnsupportedType == <<"j", "s", "o", "n", ":", " ", "u", "n", "s", "u",
    "p", "p", "o", "r", "t", "e", "d", " ", "t", "y", "p", "e", ":", " ",
    "c", "h", "a", "n", " ", "i", "n", "t">>
ErrMarshalerHead == <<"j", "s", "o", "n", ":", " ", "e", "r", "r", "o", "r",
    " ", "c", "a", "l", "l", "i", "n", "g", " ", "M", "a", "r", "s", "h",
    "a", "l", "J", "S", "O", "N", " ", "f", "o", "r", " ", "t", "y", "p",
    "e", " ", "p", "s", "i", "p", "h", "o", "n", ".", "b", "a", "d", "V",
    "a", "l", "u", "e", ":", " ">>
ContextPrefix == <<"p", "s", "i", "p", "h", "o", "n", ".", "o", "u", "t",
    "p", "u", "t", "N", "o", "t", "i", "c", "e", "#", "8", "0", ":", " ">>
TimePrefix == <<"2", "0", "1", "5", "-", "0", "1", "-", "2", "8", "T", "1",
    "7", ":", "3", "5", ":", "1">>

\* ------------------------------------------------- encoding/json: Marshal

\* The Go values an emission can carry (interface{}): strings, ints, bools,
\* maps from string to value, and two kinds of value that json.Marshal
\* rejects: a channel, and a json.Marshaler whose MarshalJSON returns an
\* error with the text s.
StringValue(s) == [t |-> "string", s |-> s, i |-> 0, b |-> FALSE, m |-> <<>>]

IntValue(i) == [t |-> "int", s |-> <<>>, i |-> i, b |-> FALSE, m |-> <<>>]

BoolValue(b) == [t |-> "bool", s |-> <<>>, i |-> 0, b |-> b, m |-> <<>>]

MapValue(m) == [t |-> "map", s |-> <<>>, i |-> 0, b |-> FALSE, m |-> m]

ChanValue == [t |-> "chan", s |-> <<>>, i |-> 0, b |-> FALSE, m |-> <<>>]

BadMarshaler(s) == [t |-> "marshaler", s |-> s, i |-> 0, b |-> FALSE, m |-> <<>>]

\* make(map[string]interface{})
EmptyMap == <<>>

\* m[k] = v
MapSet(m, k, v) == (k :> v) @@ m

\* An encoder that escapes the quote only.
NeedsEscape_QuoteOnly(c) == c = "\""

\* The escapes of encodeState.string for the bytes of the model: a quote,
\* a backslash and a newline are written as \" \\ \n.
NeedsEscape(c) == c \in {"\"", "\\", NL}

EscapeByte(c) == IF c = NL THEN "n" ELSE c

\* Every byte of s, the escaped ones after a backslash.
EscapeBytes(s) ==
    SelectSeq([p \in 1..(2 * Len(s)) |->
                  IF p % 2 = 1
                  THEN IF NeedsEscape(s[(p + 1) \div 2]) THEN "\\" ELSE ""
                  ELSE EscapeByte(s[p \div 2])],
              LAMBDA c : c # "")

EncodeString(s) == <<"\"">> \o EscapeBytes(s) \o <<"\"">>

\* The keys of a map in the order Marshal writes them: sorted.
RECURSIVE SortKeys(_)
SortKeys(K) ==
    IF K = {} THEN <<>>
    ELSE LET k == CHOOSE k \in K : \A j \in K \ {k} : BytesLess(k, j)
         IN  <<k>> \o SortKeys(K \ {k})

Encoded(out) == [ok |-> TRUE, out |-> out, err |-> <<>>]

EncodeError(err) == [ok |-> FALSE, out |-> <<>>, err |-> err]

\* json.Marshal of one value: its text, or the first error met.
RECURSIVE EncodeValue(_)
RECURSIVE EncodeMembers(_, _)
EncodeMembers(m, keys) ==
    IF keys = <<>> THEN Encoded(<<>>)
    ELSE LET k    == Head(keys)
             v    == EncodeValue(m[k])
             rest == EncodeMembers(m, Tail(keys))
         IN  IF ~v.ok THEN v
             ELSE IF ~rest.ok THEN rest
             ELSE Encoded(EncodeString(k) \o <<":">> \o v.out
                          \o (IF Tail(keys) = <<>> THEN <<>> ELSE <<",">>)
                          \o rest.out)

EncodeValue(v) ==
    CASE v.t = "string" -> Encoded(EncodeString(v.s))
      [] v.t = "int" -> Encoded(FormatInt(v.i))
      [] v.t = "bool" -> Encoded(IF v.b THEN S_true ELSE S_false)
      [] v.t = "map" ->
            LET ms == EncodeMembers(v.m, SortKeys(DOMAIN v.m))
            IN  IF ms.ok THEN Encoded(<<"{">> \o ms.out \o <<"}">>) ELSE ms
      [] v.t = "chan" -> EncodeError(ErrUnsupportedType)
      [] v.t = "marshaler" -> EncodeError(ErrMarshalerHead \o v.s)

\* json.Marshal(obj) for a map obj.
Marshal(obj) == EncodeValue(MapValue(obj))

\* ----------------------------------------------- encoding/json: Unmarshal

\* A decoded JSON text: a string, a number, a literal or an object whose
\* members keep their order and the place [lo, hi) of each value in the
\* input. The bytes of the model include no '[', '.', 'e'-exponent or \u
\* escape: arrays, fractions and those escapes are outside the grammar.
JString(s) == [t |-> "string", s |-> s, n |-> 0, b |-> FALSE, m |-> <<>>]

JNumber(n) == [t |-> "number", s |-> <<>>, n |-> n, b |-> FALSE, m |-> <<>>]

JBool(b) == [t |-> "bool", s |-> <<>>, n |-> 0, b |-> b, m |-> <<>>]

JNull == [t |-> "null", s |-> <<>>, n |-> 0, b |-> FALSE, m |-> <<>>]

JObject(m) == [t |-> "object", s |-> <<>>, n |-> 0, b |-> FALSE, m |-> m]

Parsed(next, v) == [ok |-> TRUE, next |-> next, v |-> v]

SyntaxError == [ok |-> FALSE, next |-> 0, v |-> JNull]

IsSpace(c) == c = " " \/ c = NL

\* The first position at or after i that holds no white space.
RECURSIVE SkipSpace(_, _)
SkipSpace(s, i) ==
    IF i <= Len(s) /\ IsSpace(s[i]) THEN SkipSpace(s, i + 1) ELSE i

\* F(x), with x evaluated once however often F uses it.
Bind(x, F(_)) == CHOOSE r \in {F(v) : v \in {x}} : TRUE

\* Whether the byte at position j follows an odd run of backslashes, i.e.
\* is the second byte of an escape.
Escaped(s, j) ==
    /\ j > 1
    /\ s[j - 1] = "\\"
    /\ LET k == CHOOSE k \in 1..(j - 1) :
                    /\ \A l \in k..(j - 1) : s[l] = "\\"
                    /\ k = 1 \/ s[k - 1] # "\\"
       IN  (j - k) % 2 = 1

\* The byte an escape \c stands for.
Unescape(c) == IF c = "n" THEN NL ELSE c

\* The least of a non-empty set of positions.
Least(S) == CHOOSE j \in S : \A l \in S : j <= l

\* The string literal that starts at i, after its opening quote, and ends
\* at the quote at e: a syntax error if it holds a raw newline or an escape
\* other than \" \\ \/ \n, else its bytes with the escapes resolved.
StringBody(s, i, e) ==
    IF \E j \in i..(e - 1) :
          \/ s[j] = NL
          \/ Escaped(s, j) /\ s[j] \notin {"\"", "\\", "/", "n"}
    THEN SyntaxError
    ELSE Bind(SelectSeq([p \in 1..(e - i) |-> i + p - 1],
                        LAMBDA j : ~(s[j] = "\\" /\ ~Escaped(s, j))),
              LAMBDA kept :
                Parsed(e + 1,
                       JString([r \in 1..Len(kept) |->
                                  IF Escaped(s, kept[r])
                                  THEN Unescape(s[kept[r]])
                                  ELSE s[kept[r]]])))

\* The string literal whose opening quote stands at i - 1: it ends at the
\* first quote that is not escaped.
ParseString(s, i) ==
    Bind({j \in i..Len(s) : s[j] = "\"" /\ ~Escaped(s, j)},
         LAMBDA quotes :
           IF quotes = {} THEN SyntaxError
           ELSE Bind(Least(quotes), LAMBDA e : StringBody(s, i, e)))

\* The first position from i on that holds no digit.
DigitsEnd(s, i) ==
    IF \E j \in i..Len(s) : ~IsDigit(s[j])
    THEN Least({j \in i..Len(s) : ~IsDigit(s[j])})
    ELSE Len(s) + 1

\* The value of the digits s[i..e-1].
RECURSIVE DigitsVal(_, _, _)
DigitsVal(s, i, e) ==
    IF e <= i THEN 0 ELSE 10 * DigitsVal(s, i, e - 1) + DigitVal(s[e - 1])

\* An integer literal at position i: -?(0|[1-9][0-9]*).
ParseNumber(s, i) ==
    Bind(IF s[i] = "-" THEN i + 1 ELSE i,
         LAMBDA j :
           IF j > Len(s) \/ ~IsDigit(s[j]) THEN SyntaxError
           ELSE IF s[j] = "0"
           THEN IF j + 1 <= Len(s) /\ IsDigit(s[j + 1]) THEN SyntaxError
                ELSE Parsed(j + 1, JNumber(0))
           ELSE Bind(DigitsEnd(s, j),
                     LAMBDA e :
                       Parsed(e, JNumber(IF j > i
                                         THEN 0 - DigitsVal(s, j, e)
                                         ELSE DigitsVal(s, j, e)))))

\* The literal lit at position i.
ParseLiteral(s, i, lit, v) ==
    IF i + Len(lit) - 1 <= Len(s) /\ SubSeq(s, i, i + Len(lit) - 1) = lit
    THEN Parsed(i + Len(lit), v)
    ELSE SyntaxError

RECURSIVE ParseValue(_, _)
RECURSIVE ParseObject(_, _, _)

\* After the member with key k and value v, read from lo on: the end of
\* the object, or the next member after a comma.
ParseMemberEnd(s, ms, k, lo, v) ==
    IF ~v.ok THEN SyntaxError
    ELSE Bind(SkipSpace(s, v.next),
              LAMBDA e :
                IF e > Len(s) THEN SyntaxError
                ELSE Bind(Append(ms, [k |-> k.v.s, v |-> v.v, lo |-> lo - 1,
                                      hi |-> v.next - 1]),
                          LAMBDA ms1 :
                            IF s[e] = "}" THEN Parsed(e + 1, JObject(ms1))
                            ELSE IF s[e] = ","
                            THEN Bind(SkipSpace(s, e + 1),
                                      LAMBDA i1 : ParseObject(s, i1, ms1))
                            ELSE SyntaxError))

\* After the key k of a member: a colon, then the value.
ParseMemberValue(s, ms, k) ==
    IF ~k.ok THEN SyntaxError
    ELSE Bind(SkipSpace(s, k.next),
              LAMBDA c :
                IF c > Len(s) \/ s[c] # ":" THEN SyntaxError
                ELSE Bind(SkipSpace(s, c + 1),
                          LAMBDA lo :
                            Bind(ParseValue(s, lo),
                                 LAMBDA v : ParseMemberEnd(s, ms, k, lo, v))))

\* The members of an object from position i (white space skipped), ms the
\* members read so far; a '}' may stand at i only when ms is empty.
ParseObject(s, i, ms) ==
    IF i > Len(s) THEN SyntaxError
    ELSE IF s[i] = "}" /\ ms = <<>> THEN Parsed(i + 1, JObject(ms))
    ELSE IF s[i] # "\"" THEN SyntaxError
    ELSE Bind(ParseString(s, i + 1), LAMBDA k : ParseMemberValue(s, ms, k))

\* The JSON value that starts at position i (white space skipped).
ParseValue(s, i) ==
    IF i > Len(s) THEN SyntaxError
    ELSE CASE s[i] = "\"" -> ParseString(s, i + 1)
           [] s[i] = "{" -> Bind(SkipSpace(s, i + 1),
                                 LAMBDA i1 : ParseObject(s, i1, <<>>))
           [] s[i] = "-" \/ IsDigit(s[i]) -> ParseNumber(s, i)
           [] s[i] = "t" -> ParseLiteral(s, i, S_true, JBool(TRUE))
           [] s[i] = "f" -> ParseLiteral(s, i, S_false, JBool(FALSE))
           [] s[i] = "n" -> ParseLiteral(s, i, S_null, JNull)
           [] OTHER -> SyntaxError

\* checkValid and the scan of the one value of the input: a syntax error
\* unless the input is exactly one JSON value within white space.
ParseJSON(s) ==
    Bind(SkipSpace(s, 1),
         LAMBDA i :
           Bind(ParseValue(s, i),
                LAMBDA v :
                  IF v.ok /\ SkipSpace(s, v.next) > Len(s)
                  THEN v ELSE SyntaxError))

\* The struct field a key is stored in: the field of that name, else the
\* first field whose name matches it without regard to case; 0 if none.
FieldFor(key, fields) ==
    IF \E f \in 1..Len(fields) : fields[f] = key
    THEN CHOOSE f \in 1..Len(fields) : fields[f] = key
    ELSE IF \E f \in 1..Len(fields) : EqualFold(fields[f], key)
    THEN CHOOSE f \in 1..Len(fields) :
            /\ EqualFold(fields[f], key)
            /\ \A g \in 1..(f - 1) : ~EqualFold(fields[g], key)
    ELSE 0

\* --------------------------------------------------------- notice decoding

\* type noticeObject, its zero value. Data = <<>> is the nil RawMessage.
NoticeObjectZero == [NoticeType |-> <<>>, Data |-> <<>>, Timestamp |-> <<>>]

\* The json names of the fields of noticeObject, in declaration order.
NoticeObjectFields == <<S_noticeType, S_data, S_timestamp>>

\* Decoding member m of the object read from s into a noticeObject: a
\* string field takes a string, skips null and records an error for any
\* other value; the RawMessage field takes the bytes of any value.
DecodeNoticeMember(s, m, f, acc) ==
    CASE f = 0 -> acc
      [] f = 2 -> [acc EXCEPT !.object.Data = Slice(s, m.lo, m.hi)]
      [] m.v.t = "null" -> acc
      [] m.v.t # "string" -> [acc EXCEPT !.err = TRUE]
      [] f = 1 -> [acc EXCEPT !.object.NoticeType = m.v.s]
      [] f = 3 -> [acc EXCEPT !.object.Timestamp = m.v.s]

\* Decoding the members ms from the n-th on, in their order.
RECURSIVE DecodeNoticeMembers(_, _, _, _)
DecodeNoticeMembers(s, ms, n, acc) ==
    IF n > Len(ms) THEN acc
    ELSE Bind(DecodeNoticeMember(s, ms[n],
                                 FieldFor(ms[n].k, NoticeObjectFields), acc),
              LAMBDA stored : DecodeNoticeMembers(s, ms, n + 1, stored))

\* json.Unmarshal(notice, &object) for a zero noticeObject.
UnmarshalNotice(s) ==
    Bind(ParseJSON(s),
         LAMBDA v :
           IF ~v.ok THEN [err |-> TRUE, object |-> NoticeObjectZero]
           ELSE IF v.v.t = "null"
           THEN [err |-> FALSE, object |-> NoticeObjectZero]
           ELSE IF v.v.t # "object"
           THEN [err |-> TRUE, object |-> NoticeObjectZero]
           ELSE DecodeNoticeMembers(s, v.v.m, 1,
                                    [err |-> FALSE, object |-> NoticeObjectZero]))

\* type tunnelsPayload, its zero value.
TunnelsPayloadZero == [Count |-> 0]

TunnelsPayloadFields == <<S_count>>

\* Decoding member m into a tunnelsPayload: the int field takes a number,
\* skips null and records an error for any other value.
DecodePayloadMember(m, f, acc) ==
    CASE f = 0 -> acc
      [] m.v.t = "null" -> acc
      [] m.v.t # "number" -> [acc EXCEPT !.err = TRUE]
      [] OTHER -> [acc EXCEPT !.payload.Count = m.v.n]

\* Decoding the members ms from the n-th on, in their order.
RECURSIVE DecodePayloadMembers(_, _, _)
DecodePayloadMembers(ms, n, acc) ==
    IF n > Len(ms) THEN acc
    ELSE Bind(DecodePayloadMember(ms[n],
                                  FieldFor(ms[n].k, TunnelsPayloadFields), acc),
              LAMBDA stored : DecodePayloadMembers(ms, n + 1, stored))

\* json.Unmarshal(object.Data, &payload) for a zero tunnelsPayload.
UnmarshalPayload(s) ==
    Bind(ParseJSON(s),
         LAMBDA v :
           IF ~v.ok THEN [err |-> TRUE, payload |-> TunnelsPayloadZero]
           ELSE IF v.v.t = "null"
           THEN [err |-> FALSE, payload |-> TunnelsPayloadZero]
           ELSE IF v.v.t # "object"
           THEN [err |-> TRUE, payload |-> TunnelsPayloadZero]
           ELSE DecodePayloadMembers(v.v.m, 1,
                                     [err |-> FALSE, payload |-> TunnelsPayloadZero]))

\* A decoder that takes every notice for a Tunnels notice.
IsTunnels_Any(noticeType) == TRUE

\* object.NoticeType != "Tunnels", negated.
IsTunnels(noticeType) == noticeType = S_Tunnels

\* The second half of GetNoticeTunnels, object decoded without error and of
\* type Tunnels: the payload is decoded from object.Data.
TunnelsCount(data) ==
    Bind(UnmarshalPayload(data),
         LAMBDA p :
           IF p.err THEN [count |-> 0, ok |-> FALSE]
           ELSE [count |-> p.payload.Count, ok |-> TRUE])

\* GetNoticeTunnels(notice): (count, ok).
GetNoticeTunnels(notice) ==
    Bind(UnmarshalNotice(notice),
         LAMBDA o :
           IF o.err THEN [count |-> 0, ok |-> FALSE]
           ELSE IF ~IsTunnels(o.object.NoticeType)
           THEN [count |-> 0, ok |-> FALSE]
           ELSE TunnelsCount(o.object.Data))

\* ---------------------------------------------------------- notice encoding

\* time.Now().UTC().Format(time.RFC3339) at instant t, counted in seconds
\* from 2015-01-28T17:35:10Z.
FormatRFC3339(t) == TimePrefix \o <<Digits[t + 1], "Z">>

\* ContextError(err): the text of err after the caller's name and line.
ContextError(err) == ContextPrefix \o err

\* A loop that stores every pair, whatever the type of its name.
RECURSIVE NoticeDataLoop_AnyName(_, _, _)
NoticeDataLoop_AnyName(args, i, noticeData) ==
    IF i < Len(args) - 1
    THEN NoticeDataLoop_AnyName(args, i + 2,
                                MapSet(noticeData, args[i + 1].s, args[i + 2]))
    ELSE noticeData

\* The loop over args: each (name, value) pair whose name is a string is
\* stored in noticeData; i is the 0-based loop index.
RECURSIVE NoticeDataLoop(_, _, _)
NoticeDataLoop(args, i, noticeData) ==
    IF i < Len(args) - 1
    THEN LET name  == args[i + 1]
             value == args[i + 2]
         IN  NoticeDataLoop(args, i + 2,
                            IF name.t = "string"
                            THEN MapSet(noticeData, name.s, value)
                            ELSE noticeData)
    ELSE noticeData

\* obj as outputNotice builds it, timestamp taken at instant t.
NoticeObj(noticeType, showUser, args, t) ==
    MapSet(MapSet(MapSet(MapSet(EmptyMap,
        S_noticeType, StringValue(noticeType)),
        S_showUser, BoolValue(showUser)),
        S_data, MapValue(NoticeDataLoop(args, 0, EmptyMap))),
        S_timestamp, StringValue(FormatRFC3339(t)))

\* fmt.Sprintf("{\"Alert\":{\"message\":\"%s\"}}", ContextError(err))
FallbackOutput(err) == FallbackHead \o ContextError(err) \o FallbackTail

\* The string output of outputNotice.
NoticeOutput(noticeType, showUser, args, t) ==
    LET e == Marshal(NoticeObj(noticeType, showUser, args, t))
    IN  IF e.ok THEN e.out ELSE FallbackOutput(e.err)

\* A logger that writes s as it is.
LogLine_Raw(s) == s

\* Logger.Output with no prefix and no flags: s, and a newline unless s
\* ends with one.
LogLine(s) == IF s # <<>> /\ s[Len(s)] = NL THEN s ELSE s \o <<NL>>

\* --------------------------------------------------------------- variables

VARIABLES
    \* the emitter
    noticeLoggerMutex, \* the goroutine holding noticeLoggerMutex, or Unlocked
    noticeLogger,      \* the sink the current noticeLogger writes to
    sinks,             \* per sink, the bytes written to it, each with the
                       \* goroutine whose Print wrote it
    now,               \* the clock read by time.Now()
    pc,                \* per goroutine, where it stands in its call
    em,                \* per emitting goroutine, the locals of outputNotice
    setArg,            \* per SetNoticeOutput caller, its argument
    setsDone,          \* the number of SetNoticeOutput calls that returned
    lastSet,           \* the sink of the last SetNoticeOutput that returned
    \* a NoticeReceiver
    buffer,     \* NoticeReceiver.buffer
    callbacks,  \* the arguments of the receiver's callback invocations, in order
    chunks,     \* the chunks p of the Write calls made so far, in order
    lastWrite,  \* the last Write call: its chunk, the buffer it found, the
                \* callbacks it made and what it returned
    rmutex,     \* the goroutine holding NoticeReceiver.mutex, or Unlocked
    wpc,        \* per goroutine calling Write, where it stands in its call
    wl,         \* per goroutine calling Write, the locals of its call
    \* a GetNoticeTunnels call
    notice,     \* its argument
    origin,     \* how that argument was made
    result,     \* what it returned
    \* a console rewriter
    console     \* the Write calls made on its writer, in order

emitterVars == <<noticeLoggerMutex, noticeLogger, sinks, now, pc, em, setArg,
                 setsDone, lastSet>>

writerVars == <<rmutex, wpc, wl>>

receiverVars == <<buffer, callbacks, chunks, lastWrite, writerVars>>

decoderVars == <<notice, origin, result, console>>

vars == <<emitterVars, receiverVars, decoderVars>>

\* --------------------------------------------------------- emission calls

\* A call outputNotice(noticeType, showUser, args...).
Call(noticeType, showUser, args) ==
    [noticeType |-> noticeType, showUser |-> showUser, args |-> args]

\* NoticeInfo, message being the formatted text.
NoticeInfo(message) ==
    Call(S_Info, FALSE, <<StringValue(S_message), StringValue(message)>>)

NoticeCandidateServers(region, protocol, count) ==
    Call(S_CandidateServers, FALSE,
         <<StringValue(S_region), StringValue(region),
           StringValue(S_protocol), StringValue(protocol),
           StringValue(S_count), IntValue(count)>>)

NoticeTunnels(count) ==
    Call(S_Tunnels, FALSE, <<StringValue(S_count), IntValue(count)>>)

\* ------------------------------------------------------------- the emitter

Emitters == {"e1", "e2"}

Setters == {"s1"}

Sinks == {"stderr", "out"}

Unlocked == "unlocked"

\* Calls of the exported Notice* functions.
NoticeCalls == {NoticeTunnels(2), NoticeInfo(<<"a", NL, "\"">>)}

\* Calls of outputNotice with a value Marshal rejects: a channel, and a
\* Marshaler that fails with an error text of its own.
RawCalls ==
    {Call(S_Info, FALSE, <<StringValue(S_message), ChanValue>>),
     Call(S_Info, FALSE, <<StringValue(S_message), BadMarshaler(<<"\"", NL>>)>>)}

EmitCalls == NoticeCalls \cup RawCalls

NoCall == Call(<<>>, FALSE, <<>>)

\* The locals of an outputNotice call: the call, the instant of its
\* timestamp, output, the logger Print is called on and the number of bytes
\* of the line the sink has taken; and what the goroutine found: whether
\* Marshal failed, whether noticeLoggerMutex was held and which sink was
\* current when the envelope was built, and which SetNoticeOutput had last
\* returned when the lock was acquired.
NoEmission ==
    [call |-> NoCall, t |-> 0, output |-> <<>>, logger |-> "stderr", pos |-> 0,
     failed |-> FALSE, contended |-> FALSE, builtUnder |-> "stderr",
     atLock |-> "stderr"]

\* var noticeLogger = log.New(os.Stderr, "", 0), the mutex unlocked.
EmitterInit ==
    /\ noticeLoggerMutex = Unlocked
    /\ noticeLogger = "stderr"
    /\ sinks = [s \in Sinks |-> <<>>]
    /\ now = 0
    /\ pc = [p \in Emitters \cup Setters |-> "idle"]
    /\ em = [p \in Emitters |-> NoEmission]
    /\ setArg = [q \in Setters |-> "stderr"]
    /\ setsDone = 0
    /\ lastSet = "stderr"

\* Time passes.
Tick ==
    /\ now < MaxClock
    /\ now' = now + 1
    /\ UNCHANGED <<noticeLoggerMutex, noticeLogger, sinks, pc, em, setArg,
                   setsDone, lastSet, receiverVars, decoderVars>>

\* A lock that never blocks.
EmitCanLock_Never(m) == TRUE

\* noticeLoggerMutex.Lock() in outputNotice returns only when the mutex is
\* unlocked.
EmitCanLock(m) == m = Unlocked

\* A lock that never blocks.
SetCanLock_Never(m) == TRUE

\* noticeLoggerMutex.Lock() in SetNoticeOutput returns only when the mutex
\* is unlocked.
SetCanLock(m) == m = Unlocked

\* outputNotice up to its Lock call: the envelope is built with the time
\* read now, and serialized.
EmitBuild(p, c) ==
    /\ pc[p] = "idle"
    /\ em' = [em EXCEPT ![p] =
                [call |-> c, t |-> now,
                 output |-> NoticeOutput(c.noticeType, c.showUser, c.args, now),
                 logger |-> "stderr", pos |-> 0,
                 failed |-> ~Marshal(NoticeObj(c.noticeType, c.showUser,
                                               c.args, now)).ok,
                 contended |-> noticeLoggerMutex # Unlocked,
                 builtUnder |-> noticeLogger,
                 atLock |-> "stderr"]]
    /\ pc' = [pc EXCEPT ![p] = "lock"]
    /\ UNCHANGED <<noticeLoggerMutex, noticeLogger, sinks, now, setArg,
                   setsDone, lastSet, receiverVars, decoderVars>>

\* noticeLoggerMutex.Lock()
EmitLock(p) ==
    /\ pc[p] = "lock"
    /\ EmitCanLock(noticeLoggerMutex)
    /\ noticeLoggerMutex' = p
    /\ em' = [em EXCEPT ![p].atLock = lastSet]
    /\ pc' = [pc EXCEPT ![p] = "print"]
    /\ UNCHANGED <<noticeLogger, sinks, now, setArg, setsDone, lastSet,
                   receiverVars, decoderVars>>

\* noticeLogger.Print(output): the logger is read.
EmitPrint(p) ==
    /\ pc[p] = "print"
    /\ em' = [em EXCEPT ![p].logger = noticeLogger]
    /\ pc' = [pc EXCEPT ![p] = "write"]
    /\ UNCHANGED <<noticeLoggerMutex, noticeLogger, sinks, now, setArg,
                   setsDone, lastSet, receiverVars, decoderVars>>

\* The bytes of s from position pos (0-based) that a sink takes in one step.
NextBlock(s, pos) ==
    SubSeq(s, pos + 1, IF pos + SinkBlock < Len(s) THEN pos + SinkBlock ELSE Len(s))

\* The logger's Write of the line to its sink, which takes it block by
\* block; with the last block Print returns.
EmitWrite(p) ==
    /\ pc[p] = "write"
    /\ LET line  == LogLine(em[p].output)
           block == NextBlock(line, em[p].pos)
       IN  /\ sinks' = [sinks EXCEPT ![em[p].logger] =
                          @ \o [i \in 1..Len(block) |-> [c |-> block[i], by |-> p]]]
           /\ em' = [em EXCEPT ![p].pos = @ + Len(block)]
           /\ pc' = [pc EXCEPT ![p] =
                       IF em[p].pos + Len(block) = Len(line)
                       THEN "unlock" ELSE "write"]
    /\ UNCHANGED <<noticeLoggerMutex, noticeLogger, now, setArg, setsDone,
                   lastSet, receiverVars, decoderVars>>

\* A return that leaves the mutex locked.
EmitUnlock_NoRelease(p) ==
    /\ pc[p] = "unlock"
    /\ pc' = [pc EXCEPT ![p] = "done"]
    /\ UNCHANGED <<noticeLoggerMutex, noticeLogger, sinks, now, em, setArg,
                   setsDone, lastSet, receiverVars, decoderVars>>

\* The deferred noticeLoggerMutex.Unlock(), and the return.
EmitUnlock(p) ==
    /\ pc[p] = "unlock"
    /\ noticeLoggerMutex' = Unlocked
    /\ pc' = [pc EXCEPT ![p] = "done"]
    /\ UNCHANGED <<noticeLogger, sinks, now, em, setArg, setsDone, lastSet,
                   receiverVars, decoderVars>>

\* SetNoticeOutput(output): noticeLoggerMutex.Lock()
SetLock(q, output) ==
    /\ pc[q] = "idle"
    /\ setsDone < MaxSets
    /\ SetCanLock(noticeLoggerMutex)
    /\ noticeLoggerMutex' = q
    /\ setArg' = [setArg EXCEPT ![q] = output]
    /\ pc' = [pc EXCEPT ![q] = "set"]
    /\ UNCHANGED <<noticeLogger, sinks, now, em, setsDone, lastSet,
                   receiverVars, decoderVars>>

\* noticeLogger = log.New(output, "", 0)
SetStore(q) ==
    /\ pc[q] = "set"
    /\ noticeLogger' = setArg[q]
    /\ pc' = [pc EXCEPT ![q] = "unlock"]
    /\ UNCHANGED <<noticeLoggerMutex, sinks, now, em, setArg, setsDone,
                   lastSet, receiverVars, decoderVars>>

\* The deferred noticeLoggerMutex.Unlock(), and the return.
SetUnlock(q) ==
    /\ pc[q] = "unlock"
    /\ noticeLoggerMutex' = Unlocked
    /\ setsDone' = setsDone + 1
    /\ lastSet' = setArg[q]
    /\ pc' = [pc EXCEPT ![q] = "idle"]
    /\ UNCHANGED <<noticeLogger, sinks, now, em, setArg, receiverVars,
                   decoderVars>>

\* ---------------------------------------------------------- NoticeReceiver

\* The goroutines that call Write on one receiver concurrently.
Writers == {"w1", "w2"}

\* The locals of a Write call: its chunk p, the buffer value that append
\* read, and notice.
NoLocals == [p |-> <<>>, buf |-> <<>>, notice |-> <<>>]

\* The mutex of a new NoticeReceiver is unlocked and no Write is under way.
WriterInit ==
    /\ rmutex = Unlocked
    /\ wpc = [w \in Writers |-> "idle"]
    /\ wl = [w \in Writers |-> NoLocals]

NoWrite == [done |-> FALSE, p |-> <<>>, before |-> <<>>, fired |-> 0,
            n |-> 0, err |-> "nil"]

\* NewNoticeReceiver: an empty buffer.
ReceiverInit ==
    /\ buffer = <<>>
    /\ callbacks = <<>>
    /\ chunks = <<>>
    /\ lastWrite = NoWrite
    /\ WriterInit

\* A Write that keeps only the new chunk.
AppendChunk_Overwrite(buf, p) == p

\* receiver.buffer = append(receiver.buffer, p...)
AppendChunk(buf, p) == buf \o p

\* notice := receiver.buffer[:index]
NoticeOf(buf, index) == Slice(buf, 0, index)

\* A Write that keeps the delimiter of the dispatched record.
RestOf_FromIndex(buf, index) == SliceFrom(buf, index)

\* receiver.buffer = receiver.buffer[index+1:]
RestOf(buf, index) == SliceFrom(buf, index + 1)

\* A Write that reports the bytes of the dispatched record only.
WriteN_Consumed(p, index) == IF index = -1 THEN Len(p) ELSE index + 1

\* The n of both return statements: len(p).
WriteN(p, index) == Len(p)

\* NoticeReceiver.Write(p), run to its return under receiver.mutex.
Write(p) ==
    LET buf   == AppendChunk(buffer, p)
        index == BytesIndex(buf, NL)
    IN  /\ chunks' = Append(chunks, p)
        /\ IF index = -1
           THEN /\ buffer' = buf
                /\ callbacks' = callbacks
                /\ lastWrite' = [done |-> TRUE, p |-> p, before |-> buffer,
                                 fired |-> 0, n |-> WriteN(p, index),
                                 err |-> "nil"]
           ELSE /\ buffer' = RestOf(buf, index)
                /\ callbacks' = Append(callbacks, NoticeOf(buf, index))
                /\ lastWrite' = [done |-> TRUE, p |-> p, before |-> buffer,
                                 fired |-> 1, n |-> WriteN(p, index),
                                 err |-> "nil"]

\* A reader loop feeding one receiver with chunks of any size.
ReceiverWrite ==
    /\ Len(chunks) < MaxWrites
    /\ \E p \in BytesUpTo(StreamByte, MaxTotal - Len(Concat(chunks))) : Write(p)
    /\ UNCHANGED <<emitterVars, decoderVars, writerVars>>

\* ------------------------------------------------------- GetNoticeTunnels

Counts == (0 - 1)..MaxCount

\* The emissions whose records are decoded: Tunnels notices of every count,
\* notices of other types with and without a count, and Tunnels notices
\* whose data holds no count.
DecodeCalls ==
    {NoticeTunnels(c) : c \in Counts}
    \cup {NoticeCandidateServers(<<"r">>, <<"p">>, c) : c \in {0, 3}}
    \cup {NoticeInfo(<<"a", NL, "\"">>),
          Call(S_Tunnels, FALSE, <<>>),
          Call(S_Tunnels, FALSE, <<StringValue(S_message), StringValue(<<"a">>)>>)}

NoResult == [called |-> FALSE, count |-> 0, ok |-> FALSE]

\* What is known of a record from the emission c that made it: its type and
\* the integer count of its data, if it has one. cut tells whether the
\* bytes are the whole record or a proper prefix of it.
OriginOf(c, cut) ==
    LET data == NoticeDataLoop(c.args, 0, EmptyMap)
        has  == S_count \in DOMAIN data /\ data[S_count].t = "int"
    IN  [whole |-> ~cut, noticeType |-> c.noticeType, hasCount |-> has,
         count |-> IF has THEN data[S_count].i ELSE 0]

\* The argument is a record as outputNotice writes it, whole or cut short
\* (a stream that ended early).
DecoderInit ==
    /\ result = NoResult
    /\ console = <<>>
    /\ \E c \in DecodeCalls, t \in 0..MaxClock :
          LET record == NoticeOutput(c.noticeType, c.showUser, c.args, t)
          IN  \E n \in 0..Len(record) :
                 /\ notice = SubSeq(record, 1, n)
                 /\ origin = OriginOf(c, n < Len(record))

DecoderIdle ==
    /\ notice = <<>>
    /\ origin = OriginOf(NoCall, TRUE)
    /\ result = NoResult
    /\ console = <<>>

\* count, ok := GetNoticeTunnels(notice)
Decode ==
    /\ ~result.called
    /\ result' = Bind(GetNoticeTunnels(notice),
                       LAMBDA r : [called |-> TRUE, count |-> r.count,
                                   ok |-> r.ok])
    /\ UNCHANGED <<notice, origin, console, emitterVars, receiverVars>>

\* ---------------------------------------------------------- specifications

\* Goroutines emitting one notice each while the output is replaced.
Init == EmitterInit /\ ReceiverInit /\ DecoderIdle

Next ==
    \/ Tick
    \/ \E p \in Emitters, c \in EmitCalls : EmitBuild(p, c)
    \/ \E p \in Emitters : EmitLock(p)
    \/ \E p \in Emitters : EmitPrint(p)
    \/ \E p \in Emitters : EmitWrite(p)
    \/ \E p \in Emitters : EmitUnlock(p)
    \/ \E q \in Setters, output \in Sinks : SetLock(q, output)
    \/ \E q \in Setters : SetStore(q)
    \/ \E q \in Setters : SetUnlock(q)

Spec == Init /\ [][Next]_vars

\* One receiver fed by one reader.
InitReceiver == EmitterInit /\ ReceiverInit /\ DecoderIdle

NextReceiver == ReceiverWrite

SpecReceiver == InitReceiver /\ [][NextReceiver]_vars

\* One GetNoticeTunnels call on each input.
InitDecoder == EmitterInit /\ ReceiverInit /\ DecoderInit

NextDecoder == Decode

SpecDecoder == InitDecoder /\ [][NextDecoder]_vars

\* ------------------------------------------------- properties of the receiver

Stream == Concat(chunks)

HasNL(s) == BytesIndex(s, NL) # -1

\* C1: whenever the chunks written so far concatenate to N newline-terminated
\* records, however they were cut, the callback has been invoked exactly N
\* times, in record order, the i-th time with the i-th record.
C1_FramingAnyChunking ==
    (Stream = <<>> \/ Stream[Len(Stream)] = NL)
        => callbacks = SplitRecords(Stream)

\* C6: a Write whose chunk holds no newline invokes no callback and leaves
\* the buffer equal to its previous content followed by the chunk, in every
\* receiver state.
C6_NoDelimiterAccumulates ==
    (lastWrite.done /\ ~HasNL(lastWrite.p))
        => /\ lastWrite.fired = 0
           /\ buffer = lastWrite.before \o lastWrite.p

\* The last chunk is a newline-free remainder followed by one newline.
LastCompletes ==
    /\ chunks # <<>>
    /\ LET p == chunks[Len(chunks)]
       IN  p # <<>> /\ BytesIndex(p, NL) = Len(p) - 1

\* C7: on a fresh receiver, Write calls carrying only newline-free parts of a
\* record invoke no callback, and the call that brings the remainder and the
\* newline invokes it exactly once, with all the parts joined.
C7_SplitRecordReassembled ==
    /\ (\A j \in 1..Len(chunks) : ~HasNL(chunks[j])) => callbacks = <<>>
    /\ (/\ Len(chunks) >= 2
        /\ \A j \in 1..(Len(chunks) - 1) : ~HasNL(chunks[j])
        /\ LastCompletes)
           => /\ lastWrite.fired = 1
              /\ callbacks = <<Slice(Stream, 0, Len(Stream) - 1)>>

\* A record cut into three non-empty parts has been delivered whole.
C7_Witness ==
    /\ Len(chunks) = 3
    /\ \A j \in 1..2 : chunks[j] # <<>> /\ ~HasNL(chunks[j])
    /\ LastCompletes /\ Len(chunks[3]) >= 2
    /\ callbacks = <<Slice(Stream, 0, Len(Stream) - 1)>>

\* C8: every Write returns n = len(p) and a nil error, whether or not a
\* record was dispatched and whatever stays buffered.
C8_WriteInfallible ==
    lastWrite.done => lastWrite.n = Len(lastWrite.p) /\ lastWrite.err = "nil"

\* A Write that dispatched a record and left bytes buffered.
C8_Witness ==
    /\ lastWrite.done /\ lastWrite.fired = 1 /\ buffer # <<>>
    /\ lastWrite.n = Len(lastWrite.p) /\ lastWrite.n >= 2

\* -------------------------------------------------- properties of the decoder

Returned(count, ok) == result.called /\ result.count = count /\ result.ok = ok

\* C4: GetNoticeTunnels returns (0, false) for every whole record whose
\* noticeType is not "Tunnels", and (c, true) for every whole record of
\* noticeType "Tunnels" whose data carries the integer count c, c = 0
\* included.
C4_TunnelsCountExtracted ==
    (result.called /\ origin.whole)
        => /\ origin.noticeType # S_Tunnels => Returned(0, FALSE)
           /\ (origin.noticeType = S_Tunnels /\ origin.hasCount)
                 => Returned(origin.count, TRUE)

\* GetNoticeTunnels has returned (0, true) for a whole Tunnels record of
\* count 0.
C4_Witness ==
    /\ origin.whole /\ origin.noticeType = S_Tunnels
    /\ origin.hasCount /\ origin.count = 0
    /\ Returned(0, TRUE)

\* C5: GetNoticeTunnels returns ok = false for every input that does not
\* decode (a record cut short), for every record that is not a Tunnels
\* record and for every Tunnels record whose data holds no count; it returns
\* ok = true only with the count that the record holds.
C5_FailsClosed ==
    result.called
        => /\ ~origin.whole => ~result.ok
           /\ origin.noticeType # S_Tunnels => ~result.ok
           /\ (origin.noticeType = S_Tunnels /\ ~origin.hasCount) => ~result.ok
           /\ result.ok => origin.hasCount /\ result.count = origin.count

\* -------------------------------------------------- properties of the emitter

\* The bytes a sink holds.
SinkBytes(s) == [i \in 1..Len(sinks[s]) |-> sinks[s][i].c]

\* The bytes goroutine p has written to sink s, in the order the sink holds
\* them.
WrittenBy(p, s) ==
    Bind(SelectSeq(sinks[s], LAMBDA b : b.by = p),
         LAMBDA own : [i \in 1..Len(own) |-> own[i].c])

\* The pieces of a byte string that end at the delimiters at the positions
\* nls, in order.
LinesAt(bytes, nls) ==
    [k \in 1..Len(nls) |->
        SubSeq(bytes, IF k = 1 THEN 1 ELSE nls[k - 1] + 1, nls[k] - 1)]

\* The complete lines of a sink.
Lines(s) ==
    Bind(SinkBytes(s),
         LAMBDA bytes :
           Bind(SelectSeq([i \in 1..Len(bytes) |-> i], LAMBDA i : bytes[i] = NL),
                LAMBDA nls : LinesAt(bytes, nls)))

\* Print has returned in p's call.
Printed(p) == pc[p] \in {"unlock", "done"}

\* No Print is under way.
Quiet == \A p \in Emitters : pc[p] = "write" => em[p].pos = 0

\* C2: the bytes of one emission are never interleaved with those of
\* another (once a byte of another emission follows, none of its own does);
\* every emission that has returned has its whole line in exactly
\* one sink, once; and when N calls of the Notice* functions have written to
\* a sink, its content is exactly N lines, each the record of one caller.
C2_NoInterleaving ==
    /\ \A s \in Sinks : \A i \in 1..(Len(sinks[s]) - 1) :
          sinks[s][i].by # sinks[s][i + 1].by
              => \A k \in (i + 1)..Len(sinks[s]) : sinks[s][k].by # sinks[s][i].by
    /\ \A p \in Emitters : pc[p] = "done"
          => \E s \in Sinks :
                /\ WrittenBy(p, s) = LogLine(em[p].output)
                /\ \A o \in Sinks \ {s} : WrittenBy(p, o) = <<>>
    /\ \A s \in Sinks :
          LET callers == {p \in Emitters : Printed(p) /\ em[p].logger = s}
          IN  (Quiet /\ \A p \in callers : em[p].call \in NoticeCalls)
                 => /\ Len(sinks[s]) > 0 => sinks[s][Len(sinks[s])].c = NL
                    /\ Bind(Lines(s),
                            LAMBDA lines :
                              /\ Len(lines) = Cardinality(callers)
                              /\ \E f \in [1..Len(lines) -> callers] :
                                    /\ \A i, j \in DOMAIN f : f[i] = f[j] => i = j
                                    /\ \A i \in DOMAIN f :
                                          lines[i] = em[f[i]].output)

\* Two Notice* calls, one of which found the mutex held, have returned and
\* the one sink they wrote to holds their two lines.
C2_Witness ==
    /\ \A p \in Emitters : pc[p] = "done" /\ em[p].call \in NoticeCalls
    /\ \E p \in Emitters : em[p].contended
    /\ \E s \in Sinks :
          /\ \A p \in Emitters : em[p].logger = s
          /\ Len(Lines(s)) = Cardinality(Emitters)

\* C3: every emission writes its bytes to one sink only, the sink of the
\* last SetNoticeOutput that had returned when the emission acquired the
\* lock (the initial sink if none had), whatever sink was current when its
\* envelope was built; once it has returned that sink holds its whole line.
C3_ReplacementAtomic ==
    \A p \in Emitters :
        /\ \A s \in Sinks \ {em[p].atLock} : WrittenBy(p, s) = <<>>
        /\ pc[p] \in {"write", "unlock", "done"} => em[p].logger = em[p].atLock
        /\ Printed(p) => WrittenBy(p, em[p].atLock) = LogLine(em[p].output)

\* An emission that built its envelope under one sink and acquired the lock
\* after the replacement has written its whole line to the new sink.
C3_Witness ==
    \E p \in Emitters :
        /\ pc[p] = "done"
        /\ em[p].builtUnder # em[p].atLock
        /\ setsDone > 0 /\ em[p].atLock = lastSet
        /\ WrittenBy(p, lastSet) = LogLine(em[p].output)
        /\ WrittenBy(p, em[p].builtUnder) = <<>>

\* The text is an object with exactly the four fields of a notice, each of
\* its type.
IsNotice(s) ==
    Bind(ParseJSON(s),
         LAMBDA v :
           /\ v.ok /\ v.v.t = "object" /\ Len(v.v.m) = 4
           /\ {v.v.m[i].k : i \in 1..4} =
                 {S_noticeType, S_showUser, S_data, S_timestamp}
           /\ \A i \in 1..4 :
                 v.v.m[i].v.t = CASE v.v.m[i].k = S_showUser -> "bool"
                                  [] v.v.m[i].k = S_data -> "object"
                                  [] OTHER -> "string")

\* The text is a notice of type Alert whose data holds the message.
IsAlertWith(s, message) ==
    /\ IsNotice(s)
    /\ Bind(ParseJSON(s),
            LAMBDA v :
              \E i, j \in 1..Len(v.v.m) :
                 /\ v.v.m[i].k = S_noticeType /\ v.v.m[i].v.s = S_Alert
                 /\ v.v.m[j].k = S_data
                 /\ \E d \in 1..Len(v.v.m[j].v.m) :
                       /\ v.v.m[j].v.m[d].k = S_message
                       /\ v.v.m[j].v.m[d].v = JString(message))

\* C9: an emission whose Marshal failed has, once returned, written exactly
\* one line to the current sink, and that line is a notice of type Alert
\* whose data carries the text of the error.
C9_FallbackIsAlertNotice ==
    \A p \in Emitters :
        (pc[p] = "done" /\ em[p].failed)
            => /\ WrittenBy(p, em[p].atLock) = LogLine(em[p].output)
               /\ IsAlertWith(em[p].output,
                              ContextError(Marshal(NoticeObj(em[p].call.noticeType,
                                  em[p].call.showUser, em[p].call.args,
                                  em[p].t)).err))

\* C10: every complete line of every sink is an object with exactly the four
\* fields noticeType, showUser, data and timestamp, and no record written
\* holds a newline of its own, whichever path emitted it.
C10_WireFormat ==
    /\ \A s \in Sinks :
          Bind(Lines(s), LAMBDA lines : \A i \in 1..Len(lines) : IsNotice(lines[i]))
    /\ \A p \in Emitters : Printed(p) => ~HasNL(em[p].output)

\* ------------------------------------- more properties of the receiver

\* C14: when a Write has returned, the buffer holds no newline byte: every
\* record whose delimiter was written has been dispatched.
C14_BufferHoldsNoDelimiter == lastWrite.done => ~HasNL(buffer)

\* The records dispatched so far, each followed by its newline, in order.
RECURSIVE Dispatched(_)
Dispatched(cbs) ==
    IF cbs = <<>> THEN <<>> ELSE Head(cbs) \o <<NL>> \o Dispatched(Tail(cbs))

\* C18: between Write calls, the records dispatched so far, each followed by
\* a newline, followed by the buffer, are the bytes of the chunks written so
\* far; and no dispatched record holds a newline.
C18_BytesConserved ==
    /\ Dispatched(callbacks) \o buffer = Stream
    /\ \A i \in 1..Len(callbacks) : ~HasNL(callbacks[i])

\* Two records have been dispatched, bytes remain buffered and a delimiter
\* is among them.
C18_Witness ==
    /\ Len(callbacks) = 2 /\ callbacks[1] # <<>>
    /\ HasNL(buffer) /\ Len(buffer) >= 2
    /\ Dispatched(callbacks) \o buffer = Stream

\* -------------------------------------- more properties of the emitter

\* C15: an emission holds noticeLoggerMutex from before its envelope is
\* built and serialized until its write has completed; so no emission reads
\* the clock or serializes while the mutex is held by another.
C15_BuiltUnderLock ==
    \A p \in Emitters :
        /\ pc[p] \in {"lock", "print", "write", "unlock"} => noticeLoggerMutex = p
        /\ pc[p] # "idle" => ~em[p].contended

\* C19: when the line of one emission precedes the line of another in a
\* sink, the instant of the first one's timestamp is not later than the
\* instant of the second one's.
C19_SinkOrderIsTimeOrder ==
    \A s \in Sinks : \A i \in 1..(Len(sinks[s]) - 1) :
        sinks[s][i].by # sinks[s][i + 1].by
            => em[sinks[s][i].by].t <= em[sinks[s][i + 1].by].t

\* --------------------------------------------- one caller, any arguments

\* The one goroutine of this specification.
Caller == "e1"

\* The values passed after showUser: two strings, one of them with the
\* bytes Marshal escapes, an int and a bool.
ArgValues ==
    {StringValue(<<"k">>), StringValue(<<"\\", "\"", NL>>), IntValue(0 - 7),
     BoolValue(TRUE)}

\* outputNotice calls of either kind with up to MaxArgs such arguments, in
\* any order: well-formed lists of pairs, lists of odd length, names that
\* are no strings, names that repeat.
AnyCalls ==
    {Call(k[1], k[2], args) : k \in {<<S_Info, FALSE>>, <<S_Tunnels, TRUE>>},
                              args \in BytesUpTo(ArgValues, MaxArgs)}

NextCalls ==
    \/ Tick
    \/ \E c \in AnyCalls : EmitBuild(Caller, c)
    \/ EmitLock(Caller)
    \/ EmitPrint(Caller)
    \/ EmitWrite(Caller)
    \/ EmitUnlock(Caller)

SpecCalls == Init /\ [][NextCalls]_vars

\* -------------------------------------------- properties of one emission

\* The JSON value a Go value is written as.
JValueOf(v) ==
    CASE v.t = "string" -> JString(v.s)
      [] v.t = "int" -> JNumber(v.i)
      [] v.t = "bool" -> JBool(v.b)

\* The members ms of a decoded object as a map from key to value; no key
\* repeats in them.
MembersMap(ms) ==
    [k \in {ms[i].k : i \in 1..Len(ms)} |->
        ms[CHOOSE i \in 1..Len(ms) : ms[i].k = k].v]

NoEnvelope == [ok |-> FALSE, fields |-> <<>>, data |-> <<>>]

\* A line decoded as a JSON object: its top-level fields and the fields of
\* its data object, as maps; not ok if the line is no object with an object
\* in data, or repeats a key.
Envelope(line) ==
    Bind(ParseJSON(line),
         LAMBDA v :
           IF ~(v.ok /\ v.v.t = "object") THEN NoEnvelope
           ELSE Bind(v.v.m,
                     LAMBDA ms :
                       IF \/ \E i, j \in 1..Len(ms) : i # j /\ ms[i].k = ms[j].k
                          \/ ~\E i \in 1..Len(ms) :
                                ms[i].k = S_data /\ ms[i].v.t = "object"
                       THEN NoEnvelope
                       ELSE Bind(MembersMap(ms)[S_data].m,
                                 LAMBDA ds :
                                   IF \E i, j \in 1..Len(ds) :
                                         i # j /\ ds[i].k = ds[j].k
                                   THEN NoEnvelope
                                   ELSE [ok |-> TRUE, fields |-> MembersMap(ms),
                                         data |-> MembersMap(ds)])))

\* The one line the caller has written, without its newline; <<>> unless
\* the sinks hold exactly one line.
WrittenLine ==
    Bind(Lines(em[Caller].logger),
         LAMBDA lines : IF Len(lines) = 1 THEN lines[1] ELSE <<>>)

\* The indices of the (name, value) pairs of an argument list, the i-th
\* being args[2i-1], args[2i], and of those whose name is a string.
Pairs(args) == 1..(Len(args) \div 2)

NamedPairs(args) == {i \in Pairs(args) : args[2 * i - 1].t = "string"}

\* A list of (string name, value) pairs with distinct names.
WellFormed(args) ==
    /\ Len(args) % 2 = 0
    /\ NamedPairs(args) = Pairs(args)
    /\ \A i, j \in Pairs(args) : args[2 * i - 1].s = args[2 * j - 1].s => i = j

\* The line decodes to an envelope of the call's kind and showUser flag and
\* of the instant t.
EnvelopeOf(e, call, t) ==
    /\ e.ok
    /\ DOMAIN e.fields = {S_noticeType, S_showUser, S_data, S_timestamp}
    /\ e.fields[S_noticeType] = JString(call.noticeType)
    /\ e.fields[S_showUser] = JBool(call.showUser)
    /\ e.fields[S_timestamp] = JString(FormatRFC3339(t))

\* C11: for a call with a kind, a showUser flag and (string name, value)
\* pairs of distinct names, the line written decodes to an envelope with
\* that noticeType and showUser and with data holding exactly the given
\* pairs: every name with its value, and no other field.
C11_RoundTrip ==
    (Printed(Caller) /\ WellFormed(em[Caller].call.args))
        => Bind(Envelope(WrittenLine),
                LAMBDA e :
                  LET args == em[Caller].call.args
                  IN  /\ EnvelopeOf(e, em[Caller].call, em[Caller].t)
                      /\ DOMAIN e.data = {args[2 * i - 1].s : i \in Pairs(args)}
                      /\ \A i \in Pairs(args) :
                            e.data[args[2 * i - 1].s] = JValueOf(args[2 * i]))

\* A call with two pairs, one with a name and a value that need escaping,
\* has been written and decoded.
C11_Witness ==
    /\ pc[Caller] = "done"
    /\ WellFormed(em[Caller].call.args) /\ Len(em[Caller].call.args) = 4
    /\ em[Caller].call.args[1].s = <<"\\", "\"", NL>>
    /\ em[Caller].call.args[4] = em[Caller].call.args[1]
    /\ Envelope(WrittenLine).ok
    /\ Cardinality(DOMAIN Envelope(WrittenLine).data) = 2

\* The argument list is of odd length or has a pair whose name is no string.
Malformed(args) == Len(args) % 2 = 1 \/ NamedPairs(args) # Pairs(args)

\* C12: for an argument list of odd length or with names that are no
\* strings, the call returns having written exactly one record, without a
\* serialization error; the data of the record holds exactly the pairs that
\* have a string name, the last value given for each name, and nothing of
\* the unpaired last argument or of a pair whose name is no string.
C12_MalformedTolerated ==
    (pc[Caller] = "done" /\ Malformed(em[Caller].call.args))
        => /\ ~em[Caller].failed
           /\ Len(Lines(em[Caller].logger)) = 1
           /\ \A s \in Sinks \ {em[Caller].logger} : sinks[s] = <<>>
           /\ Bind(Envelope(WrittenLine),
                   LAMBDA e :
                     LET args == em[Caller].call.args
                     IN  /\ EnvelopeOf(e, em[Caller].call, em[Caller].t)
                         /\ DOMAIN e.data =
                               {args[2 * i - 1].s : i \in NamedPairs(args)}
                         /\ \A i \in NamedPairs(args) :
                               (\A j \in NamedPairs(args) :
                                   args[2 * j - 1].s = args[2 * i - 1].s => j <= i)
                                  => e.data[args[2 * i - 1].s] = JValueOf(args[2 * i]))

\* A call with one named pair and an unpaired last argument has returned,
\* its record holding that one field only.
C12_Witness ==
    /\ pc[Caller] = "done"
    /\ Len(em[Caller].call.args) = 3
    /\ em[Caller].call.args[1].t = "string"
    /\ DOMAIN Envelope(WrittenLine).data = {em[Caller].call.args[1].s}
    /\ Len(Lines(em[Caller].logger)) = 1

\* ------------------------------------ one caller, a NoticeReceiver as sink

\* A NoticeReceiver passed to SetNoticeOutput.
RxSink == "receiver"

\* The calls of the connect/disconnect scenario, in order.
Scenario == <<NoticeTunnels(0), NoticeTunnels(2)>>

\* The caller makes the next call of the scenario: the first one if it has
\* made none, else the one after its last; SetNoticeOutput is not under way.
ScenarioCall(p) ==
    /\ \A q \in Setters : pc[q] = "idle"
    /\ \E k \in 1..Len(Scenario) :
          /\ IF k = 1 THEN em[p].call = NoCall ELSE em[p].call = Scenario[k - 1]
          /\ EmitBuild(p, Scenario[k])

\* SetNoticeOutput is called before the caller's first emission, with a
\* plain writer or with the receiver.
ScenarioSet(q) ==
    /\ pc[Caller] = "idle" /\ em[Caller].call = NoCall
    /\ \E output \in Sinks \cup {RxSink} : SetLock(q, output)

\* The logger's Write of the line to a plain writer.
EmitWritePlain(p) == em[p].logger \in Sinks /\ EmitWrite(p)

\* The logger's Write of the line to the receiver: one call of
\* NoticeReceiver.Write with the whole line.
EmitWriteReceiver(p) ==
    /\ pc[p] = "write"
    /\ em[p].logger = RxSink
    /\ Write(LogLine(em[p].output))
    /\ em' = [em EXCEPT ![p].pos = Len(LogLine(em[p].output))]
    /\ pc' = [pc EXCEPT ![p] = "unlock"]
    /\ UNCHANGED <<noticeLoggerMutex, noticeLogger, sinks, now, setArg,
                   setsDone, lastSet, decoderVars, writerVars>>

\* outputNotice has returned; the goroutine may call again.
EmitReturn(p) ==
    /\ pc[p] = "done"
    /\ pc' = [pc EXCEPT ![p] = "idle"]
    /\ UNCHANGED <<noticeLoggerMutex, noticeLogger, sinks, now, em, setArg,
                   setsDone, lastSet, receiverVars, decoderVars>>

NextScenario ==
    \/ Tick
    \/ \E q \in Setters : ScenarioSet(q)
    \/ \E q \in Setters : SetStore(q)
    \/ \E q \in Setters : SetUnlock(q)
    \/ ScenarioCall(Caller)
    \/ EmitLock(Caller)
    \/ EmitPrint(Caller)
    \/ EmitWritePlain(Caller)
    \/ EmitWriteReceiver(Caller)
    \/ EmitUnlock(Caller)
    \/ EmitReturn(Caller)

SpecScenario == Init /\ [][NextScenario]_vars

\* ------------------------------------------- properties of the scenario

\* The records a consumer of the current output has received so far: the
\* arguments of the receiver's callback, or the complete lines of the plain
\* writer.
Received == IF noticeLogger = RxSink THEN callbacks ELSE Lines(noticeLogger)

\* What a consumer applying GetNoticeTunnels to each record observes.
Observed(records) ==
    [i \in 1..Len(records) |->
        Bind(GetNoticeTunnels(records[i]), LAMBDA r : <<r.count, r.ok>>)]

\* The caller has returned from the last call of the scenario.
ScenarioDone ==
    pc[Caller] \in {"done", "idle"} /\ em[Caller].call = Scenario[Len(Scenario)]

\* C13: once the caller has emitted NoticeTunnels(0) and then
\* NoticeTunnels(2), the output holds two records, the Tunnels record of
\* count 0 and then that of count 2, and a consumer applying
\* GetNoticeTunnels to each in order observes (0, true) then (2, true),
\* whether the output is a plain writer or a NoticeReceiver; before that
\* the consumer has observed the first of them or nothing.
C13_DisconnectThenConnect ==
    Bind(Observed(Received),
         LAMBDA seen :
           /\ seen \in {<<>>, <<<<0, TRUE>>>>, <<<<0, TRUE>>, <<2, TRUE>>>>}
           /\ ScenarioDone => seen = <<<<0, TRUE>>, <<2, TRUE>>>>)

\* Both calls have returned with a NoticeReceiver as output, whose callback
\* has been given the two records.
C13_Witness ==
    /\ ScenarioDone /\ noticeLogger = RxSink
    /\ Len(callbacks) = 2 /\ buffer = <<>>
    /\ Observed(callbacks) = <<<<0, TRUE>>, <<2, TRUE>>>>

\* --------------------------------- concurrent Write calls on one receiver

\* The chunks written concurrently: part of a record, a bare delimiter, the
\* end of a record, and one record and the start of the next.
WriterChunks == {<<"a">>, <<NL>>, <<"b", NL>>, <<"a", NL, "b">>}

\* A lock that never blocks.
WCanLock_Never(m) == TRUE

\* receiver.mutex.Lock() returns only when the mutex is unlocked.
WCanLock(m) == m = Unlocked

\* Write(p) is called and receiver.mutex.Lock() returns. chunks keeps the
\* chunks in the order of the Lock calls.
WLock(w, p) ==
    /\ wpc[w] = "idle"
    /\ Len(chunks) < MaxCalls
    /\ WCanLock(rmutex)
    /\ rmutex' = w
    /\ wl' = [wl EXCEPT ![w] = [p |-> p, buf |-> <<>>, notice |-> <<>>]]
    /\ chunks' = Append(chunks, p)
    /\ wpc' = [wpc EXCEPT ![w] = "append"]
    /\ UNCHANGED <<buffer, callbacks, lastWrite, emitterVars, decoderVars>>

\* append(receiver.buffer, p...): receiver.buffer is read.
WAppend(w) ==
    /\ wpc[w] = "append"
    /\ wl' = [wl EXCEPT ![w].buf = buffer]
    /\ wpc' = [wpc EXCEPT ![w] = "store"]
    /\ UNCHANGED <<buffer, callbacks, chunks, lastWrite, rmutex, emitterVars,
                   decoderVars>>

\* receiver.buffer = append(...): the result is stored.
WStore(w) ==
    /\ wpc[w] = "store"
    /\ buffer' = AppendChunk(wl[w].buf, wl[w].p)
    /\ wpc' = [wpc EXCEPT ![w] = "scan"]
    /\ UNCHANGED <<callbacks, chunks, lastWrite, rmutex, wl, emitterVars,
                   decoderVars>>

\* bytes.Index and what follows it up to the callback: with no newline the
\* call is about to return, else notice and receiver.buffer are sliced.
WScan(w) ==
    /\ wpc[w] = "scan"
    /\ LET index == BytesIndex(buffer, NL)
       IN  IF index = -1
           THEN /\ wpc' = [wpc EXCEPT ![w] = "unlock"]
                /\ UNCHANGED <<buffer, wl>>
           ELSE /\ wl' = [wl EXCEPT ![w].notice = NoticeOf(buffer, index)]
                /\ buffer' = RestOf(buffer, index)
                /\ wpc' = [wpc EXCEPT ![w] = "callback"]
    /\ UNCHANGED <<callbacks, chunks, lastWrite, rmutex, emitterVars,
                   decoderVars>>

\* receiver.callback(notice) runs and returns.
WCallback(w) ==
    /\ wpc[w] = "callback"
    /\ callbacks' = Append(callbacks, wl[w].notice)
    /\ wpc' = [wpc EXCEPT ![w] = "unlock"]
    /\ UNCHANGED <<buffer, chunks, lastWrite, rmutex, wl, emitterVars,
                   decoderVars>>

\* The deferred receiver.mutex.Unlock(), and the return.
WUnlock(w) ==
    /\ wpc[w] = "unlock"
    /\ rmutex' = Unlocked
    /\ wpc' = [wpc EXCEPT ![w] = "idle"]
    /\ UNCHANGED <<buffer, callbacks, chunks, lastWrite, wl, emitterVars,
                   decoderVars>>

NextWriters ==
    \/ \E w \in Writers, p \in WriterChunks : WLock(w, p)
    \/ \E w \in Writers : WAppend(w)
    \/ \E w \in Writers : WStore(w)
    \/ \E w \in Writers : WScan(w)
    \/ \E w \in Writers : WCallback(w)
    \/ \E w \in Writers : WUnlock(w)

SpecWriters == Init /\ [][NextWriters]_vars

\* ------------------------------------ properties of concurrent Write calls

\* The buffer and the callback arguments after the Write calls with the
\* chunks ps made one after the other on a new receiver.
RECURSIVE Sequential(_)
Sequential(ps) ==
    IF ps = <<>> THEN [buffer |-> <<>>, callbacks |-> <<>>]
    ELSE LET before == Sequential(SubSeq(ps, 1, Len(ps) - 1))
             buf    == AppendChunk(before.buffer, ps[Len(ps)])
             index  == BytesIndex(buf, NL)
         IN  IF index = -1
             THEN [buffer |-> buf, callbacks |-> before.callbacks]
             ELSE [buffer |-> RestOf(buf, index),
                   callbacks |-> Append(before.callbacks, NoticeOf(buf, index))]

\* C16: a Write call holds the receiver's mutex from its append to its
\* return, so at most one callback runs at a time and it runs under the
\* mutex; and when no Write is under way, the chunks are in the dispatched
\* records and the buffer as whole blocks in the order of the Lock calls,
\* and the callback sequence and the buffer are those of the same Write
\* calls made one after the other in that order.
C16_WritesSerialized ==
    /\ \A w \in Writers : wpc[w] # "idle" => rmutex = w
    /\ Cardinality({w \in Writers : wpc[w] = "callback"}) <= 1
    /\ (\A w \in Writers : wpc[w] = "idle")
          => /\ Dispatched(callbacks) \o buffer = Concat(chunks)
             /\ callbacks = Sequential(chunks).callbacks
             /\ buffer = Sequential(chunks).buffer

\* Both goroutines have written, a record cut across their chunks has been
\* dispatched whole and a later Write found the mutex free again.
C16_Witness ==
    /\ \A w \in Writers : wpc[w] = "idle" /\ wl[w].p # <<>>
    /\ Len(chunks) = 3
    /\ \E i \in 1..Len(callbacks) : Len(callbacks[i]) >= 2
    /\ callbacks = Sequential(chunks).callbacks

\* ------------------------------------------------- the console rewriter

\* A Printf that writes every field but the last.
Rewrite_NoData(record) ==
    Bind(UnmarshalNotice(record).object,
         LAMBDA object :
           object.Timestamp \o <<" ">> \o object.NoticeType \o <<" ">> \o <<NL>>)

\* The callback of NewNoticeConsoleRewriter, called with the notice
\* record: the bytes of its Fprintf, the error of Unmarshal dropped.
Rewrite(record) ==
    Bind(UnmarshalNotice(record).object,
         LAMBDA object :
           object.Timestamp \o <<" ">> \o object.NoticeType \o <<" ">>
               \o object.Data \o <<NL>>)

\* An outputNotice call with a kind that holds a newline.
OddKindCall == Call(<<"a", NL, "b">>, FALSE, <<>>)

\* The calls whose records the rewriter is fed.
RewriterCalls ==
    {NoticeTunnels(2), NoticeInfo(<<"a", NL, "\"">>),
     Call(S_Info, FALSE, <<StringValue(S_message), ChanValue>>), OddKindCall}

\* A record with a number where noticeObject has a string.
TypeErrorRecord == <<"{", "\"", "n", "o", "t", "i", "c", "e", "T", "y", "p",
    "e", "\"", ":", "\"", "I", "n", "f", "o", "\"", ",", "\"", "t", "i", "m",
    "e", "s", "t", "a", "m", "p", "\"", ":", "5", "}">>

\* The records as outputNotice writes them at the instants of the clock.
WholeRecords ==
    {NoticeOutput(c.noticeType, c.showUser, c.args, t) :
        c \in RewriterCalls, t \in 0..MaxClock}

\* Records cut short: the first half of each.
CutRecords == {SubSeq(r, 1, Len(r) \div 2) : r \in WholeRecords}

RewriterRecords == WholeRecords \cup CutRecords \cup {TypeErrorRecord, <<>>}

\* A Write on the rewriter's receiver with one line of the stream; the
\* callback, if the receiver invokes it, writes to the console.
RewriterWrite ==
    /\ Len(chunks) < MaxWrites
    /\ \E r \in RewriterRecords : Write(r \o <<NL>>)
    /\ console' = IF Len(callbacks') > Len(callbacks)
                  THEN Append(console, Rewrite(callbacks'[Len(callbacks')]))
                  ELSE console
    /\ UNCHANGED <<notice, origin, result, emitterVars, writerVars>>

NextRewriter == RewriterWrite

SpecRewriter == Init /\ [][NextRewriter]_vars

\* ------------------------------------------- properties of the rewriter

\* What is to be written for the records of known content: for a record
\* as emitted by call c at instant t, its timestamp, its kind and its data
\* as serialized; for a record cut short, which does not decode, the three
\* fields empty.
ExpectedLines ==
    {[record |-> NoticeOutput(c.noticeType, c.showUser, c.args, t),
      line |-> FormatRFC3339(t) \o <<" ">> \o c.noticeType \o <<" ">>
                 \o Marshal(NoticeDataLoop(c.args, 0, EmptyMap)).out \o <<NL>>] :
        c \in RewriterCalls \ {Call(S_Info, FALSE,
                                    <<StringValue(S_message), ChanValue>>)},
        t \in 0..MaxClock}
    \cup {[record |-> r, line |-> <<" ", " ", NL>>] : r \in CutRecords}

\* C17: for every record its receiver dispatches the rewriter writes once,
\* exactly one line; for a record that decodes the line is timestamp, kind
\* and payload as serialized, separated by spaces, and for a record that
\* does not decode it is the line of the empty fields.
C17_RewriterKeepsEveryRecord ==
    /\ Len(console) = Len(callbacks)
    /\ \A i \in 1..Len(console) :
          /\ BytesIndex(console[i], NL) = Len(console[i]) - 1
          /\ \A x \in ExpectedLines :
                callbacks[i] = x.record => console[i] = x.line

\* The kind and the timestamp that a record decodes to hold no newline.
PlainFields(record) ==
    Bind(UnmarshalNotice(record).object,
         LAMBDA object : ~HasNL(object.NoticeType) /\ ~HasNL(object.Timestamp))

\* C17, with the case of a newline in a decoded field set apart: for every
\* record its receiver dispatches the rewriter writes once, the text ending
\* with a newline; the text is one line if the kind and the timestamp that
\* the record decodes to hold no newline; for a record that decodes it is
\* timestamp, kind and payload as serialized, separated by spaces, and for
\* a record that does not decode it is the line of the empty fields.
C17_RewriterWritesEveryRecord ==
    /\ Len(console) = Len(callbacks)
    /\ \A i \in 1..Len(console) :
          /\ console[i][Len(console[i])] = NL
          /\ PlainFields(callbacks[i])
                => BytesIndex(console[i], NL) = Len(console[i]) - 1
          /\ \A x \in ExpectedLines :
                callbacks[i] = x.record => console[i] = x.line

\* A record cut short and then a whole Tunnels record have been dispatched
\* and each has its line on the console, the first one of empty fields.
C17_Witness ==
    /\ Len(callbacks) = 2 /\ Len(console) = 2
    /\ callbacks[1] \in CutRecords /\ console[1] = <<" ", " ", NL>>
    /\ callbacks[2] = NoticeOutput(S_Tunnels, FALSE,
                                   <<StringValue(S_count), IntValue(2)>>, 0)
    /\ Len(console[2]) > 3

\* ------------------------------------------------- progress of the emitter

\* The scheduler runs every goroutine that can take a step, and a goroutine
\* blocked in Lock gets a mutex that is free again and again (sync.Mutex
\* hands the mutex to a starving waiter); a sink's Write returns. Nothing
\* obliges a goroutine to begin a call.
Fairness ==
    /\ \A p \in Emitters :
          /\ SF_vars(EmitLock(p))
          /\ WF_vars(EmitPrint(p))
          /\ WF_vars(EmitWrite(p))
          /\ WF_vars(EmitUnlock(p))
    /\ \A q \in Setters : WF_vars(SetStore(q)) /\ WF_vars(SetUnlock(q))

\* The steps of the goroutines, the clock standing still.
NextLive ==
    \/ \E p \in Emitters, c \in EmitCalls : EmitBuild(p, c)
    \/ \E p \in Emitters : EmitLock(p)
    \/ \E p \in Emitters : EmitPrint(p)
    \/ \E p \in Emitters : EmitWrite(p)
    \/ \E p \in Emitters : EmitUnlock(p)
    \/ \E q \in Setters, output \in Sinks : SetLock(q, output)
    \/ \E q \in Setters : SetStore(q)
    \/ \E q \in Setters : SetUnlock(q)

FairSpec == Init /\ [][NextLive]_vars /\ Fairness

\* No call of outputNotice or SetNoticeOutput is past its first step and
\* short of its return.
NoCallUnderWay ==
    /\ \A p \in Emitters : pc[p] \in {"idle", "done"}
    /\ \A q \in Setters : pc[q] = "idle"

====
